---- MODULE Spec2Model ----
(***************************************************************************)
(* Model of the DTSFramework consistency validator (WirelessValidator) and *)
(* of the test-pair driver in main.py.                                     *)
(*                                                                         *)
(* Strings are sequences of tokens.  A token is either a single character  *)
(* that the code treats specially ("=", ".", "'", the newline "\n") or an  *)
(* atom standing for a run of ordinary characters ("data_sender", "name",  *)
(* "foo").  Python's `in`, split and strip are modelled on these           *)
(* sequences by what they do.                                              *)
(***************************************************************************)
EXTENDS Integers, Sequences, FiniteSets, TLC

VARIABLES
    \* ---- _find_dts_sections_by_name (resolver) ----
    device,        \* the data_sender sections on the device
    order,         \* order in which `uci show` lists the sections
    rpc,           \* position of the resolver call
    found,         \* the mapping the resolver returned
    anchorId,      \* section_id of the anchor the resolver took, << >> if none
    showFailed,    \* whether `uci show data_sender` raised
    \* ---- validate_ap_config (orchestrator) ----
    mqtt_config,   \* the mqtt_config argument
    dts_config,    \* the dts_config argument
    test_type,     \* self.test_type
    pc,            \* position of the validate_ap_config call
    results,       \* the local `results` of _validate_ap_config
    pending,       \* what _validate_ap_config is about to return
    closeAttempted,\* ssh_client.close() has been called
    timedOut,      \* the outer wait_for timeout has fired
    returned,      \* what validate_ap_config handed to its caller
    \* ---- main / run_test_pair / run_gui_test_pair (drivers) ----
    effective_test_type, \* args.test_type, "all" by default
    pair_index,    \* index of the scenario pair, from 1
    channel,       \* the channel driven for the pair: gui, ssh, api
    step,          \* position within the pair's run on the channel
    mqtt_test,     \* the MQTT test instance exists
    dts_test,      \* the Data-to-Server test instance exists
    collection_id, \* the DTS API test's dts_config holds a collection_id
    applied,       \* the DTS driver applied its configuration
    onDevice,      \* the applied DTS configuration is on the device
    mqtt_status,   \* recorded status of the pair's MQTT broker test
    dts_status,    \* recorded status of the pair's Data to Server test
    validated,     \* a validation result was appended for the pair
    cleanup_ran,   \* cleanup() ran _cleanup_configuration(clean_all=True)
    \* ---- _cleanup_configuration ----
    layout,        \* which sections each instance was given on the device
    listed,       \* the section ids `uci show data_sender` lists
    clean_all,     \* the clean_all argument
    cleanup_config,\* the dts_config argument of the cleanup
    cpc,           \* position of the cleanup call
    sections_to_delete, \* the deletion set computed from the text
    remaining,     \* sections of the set the loop has not reached yet
    deleteIssued,  \* section ids for which `uci delete` was issued
    deleteCmds,    \* number of `uci delete` commands issued
    deleteFailed,  \* a `uci delete` has failed
    commitIssued,  \* `uci commit data_sender` was issued
    restartIssued, \* `/etc/init.d/data_sender restart` was issued
    cleanup_result,\* what the cleanup returned: "none" before, else a bool
    calls,         \* number of cleanup calls started
    computed,      \* overall success the validator computed before cleanup
    handed,        \* overall success the validator returns after cleanup
    \* ---- validate_mqtt_message (liveness probe) ----
    ppc,           \* position of the probe call
    timeout,       \* the timeout argument, in ticks
    clock,         \* ticks elapsed since the call
    proc,          \* how the mosquitto_sub process behaves
    probe_result,  \* what the probe returned: "none" before, else a bool
    \* ---- extraction of a value from a `uci show` line ----
    stored,        \* the value the device stores
    via,           \* the check that extracted it
    extracted,     \* the value the validator extracted
    \* ---- DataToServerSSHTest applies a scenario, the validator checks it ----
    apc,           \* position in apply-then-validate
    existing,      \* the package before the driver ran
    store,         \* the package's lines as `uci show data_sender` prints them
    scenario,      \* the scenario's unwrapped config
    section_ids,   \* self.section_ids
    verdict        \* results["data_to_server"] of the validation

resolverVars == <<device, order, rpc, found, anchorId, showFailed>>

validateVars == <<mqtt_config, dts_config, test_type, pc, results, pending,
                  closeAttempted, timedOut, returned>>

pairVars == <<effective_test_type, pair_index, channel, step, mqtt_test,
              dts_test, collection_id, applied, onDevice,
              mqtt_status, dts_status, validated, cleanup_ran>>

cleanupVars == <<layout, listed, clean_all, cleanup_config, cpc,
                 sections_to_delete, remaining, deleteIssued, deleteCmds,
                 deleteFailed, commitIssued, restartIssued, cleanup_result,
                 calls, computed, handed>>

probeVars == <<ppc, timeout, clock, proc, probe_result>>

parseVars == <<stored, via, extracted>>

applyVars == <<apc, existing, store, scenario, section_ids, verdict>>

vars == <<device, order, rpc, found, anchorId, showFailed,
          mqtt_config, dts_config, test_type, pc, results, pending,
          closeAttempted, timedOut, returned,
          effective_test_type, pair_index, channel, step, mqtt_test,
          dts_test, collection_id, applied, onDevice,
          mqtt_status, dts_status, validated, cleanup_ran,
          layout, listed, clean_all, cleanup_config, cpc,
          sections_to_delete, remaining, deleteIssued, deleteCmds,
          deleteFailed, commitIssued, restartIssued, cleanup_result,
          calls, computed, handed,
          ppc, timeout, clock, proc, probe_result,
          stored, via, extracted,
          apc, existing, store, scenario, section_ids, verdict>>

-----------------------------------------------------------------------------
(* Bounds *)

MaxId == 3

-----------------------------------------------------------------------------
(* Python string primitives on token sequences *)

\* `pat in s`
Contains(s, pat) ==
    \E i \in 1..(Len(s) + 1) :
        /\ i + Len(pat) - 1 <= Len(s)
        /\ SubSeq(s, i, i + Len(pat) - 1) = pat

\* index of the first occurrence of token sep in s, 0 when absent
RECURSIVE FirstAt(_, _, _)
FirstAt(s, sep, i) ==
    IF i > Len(s) THEN 0
    ELSE IF s[i] = sep THEN i
    ELSE FirstAt(s, sep, i + 1)

\* s.split(sep): every occurrence of sep separates two pieces
RECURSIVE Split(_, _)
Split(s, sep) ==
    LET k == FirstAt(s, sep, 1)
    IN  IF k = 0 THEN << s >>
        ELSE << SubSeq(s, 1, k - 1) >> \o Split(SubSeq(s, k + 1, Len(s)), sep)

\* s.strip(chars)
RECURSIVE LStrip(_, _)
LStrip(s, chars) ==
    IF s # << >> /\ s[1] \in chars THEN LStrip(Tail(s), chars) ELSE s

RECURSIVE RStrip(_, _)
RStrip(s, chars) ==
    IF s # << >> /\ s[Len(s)] \in chars
    THEN RStrip(SubSeq(s, 1, Len(s) - 1), chars)
    ELSE s

Strip(s, chars) == RStrip(LStrip(s, chars), chars)

\* the elements of a list
Range(f) == {f[i] : i \in DOMAIN f}

QuoteChars == {"'", "\""}

WhiteSpace == {"\n", " "}

\* dict[key] = value on a mapping held as a function
DictSet(d, k, v) == [x \in (DOMAIN d) \cup {k} |-> IF x = k THEN v ELSE d[x]]

EmptyDict == [x \in {} |-> << >>]

-----------------------------------------------------------------------------
(* The device: `uci show data_sender` as the SSH executor returns it *)

Ids == 1..MaxId

Digit == <<"1", "2", "3", "4", "5", "6", "7", "8", "9">>

IdStr(i) == << Digit[i] >>

InstanceName == <<"foo">>

\* the name the SSH driver writes on the output section
OutputName == InstanceName \o <<"_output">>

\* the name of some other instance
OtherName == <<"bar">>

NoName == << >>

Absent == [type |-> "absent", name |-> NoName, refs |-> FALSE]

\* the section ids a collection at id i references
InputOf(i) == ((i + 1) % MaxId) + 1

OutputOf(i) == (i % MaxId) + 1

SectionOptions ==
    {Absent}
    \cup [type : {"collection"},
          name : {NoName, InstanceName, OutputName, OtherName},
          refs : BOOLEAN]
    \cup [type : {"output"}, name : {NoName, InstanceName, OutputName},
          refs : {FALSE}]
    \cup [type : {"input"}, name : {NoName, InstanceName}, refs : {FALSE}]

Devices == [Ids -> SectionOptions]

Quoted(v) == <<"'">> \o v \o <<"'">>

TypeLine(i, t) == <<"data_sender", ".">> \o IdStr(i) \o <<"=", t>>

OptionLine(i, key, v) ==
    <<"data_sender", ".">> \o IdStr(i) \o <<".", key, "=">> \o Quoted(v)

\* the lines `uci show` prints for section i
SectionLines(dev, i) ==
    LET s == dev[i]
    IN  IF s.type = "absent" THEN << >>
        ELSE << TypeLine(i, s.type) >>
             \o (IF s.name # NoName THEN << OptionLine(i, "name", s.name) >>
                 ELSE << >>)
             \o (IF s.refs
                 THEN << OptionLine(i, "input", IdStr(InputOf(i))),
                         OptionLine(i, "output", IdStr(OutputOf(i))) >>
                 ELSE << >>)

RECURSIVE ShowLines(_, _, _)
ShowLines(dev, ord, k) ==
    IF k > MaxId THEN << >>
    ELSE SectionLines(dev, IF ord = "asc" THEN k ELSE MaxId + 1 - k)
         \o ShowLines(dev, ord, k + 1)

RECURSIVE JoinLines(_)
JoinLines(ls) ==
    IF ls = << >> THEN << >>
    ELSE ls[1] \o <<"\n">> \o JoinLines(Tail(ls))

\* the text execute_command("uci show data_sender") returns
UciShow(dev, ord) == JoinLines(ShowLines(dev, ord, 1))

-----------------------------------------------------------------------------
(* WirelessValidator._find_dts_sections_by_name *)

S(tok) == << tok >>

Fallback ==
    [k \in {S("collection"), S("output"), S("input")} |->
        IF k = S("collection") THEN S("2")
        ELSE IF k = S("output") THEN S("3") ELSE S("5")]

\* result.strip().split("\n")
LinesOf(result) == Split(Strip(result, WhiteSpace), "\n")

PathParts(line) == Split(Split(line, "=")[1], ".")

\* IsAnchorLine without the instance_name test of line 122
IsAnchorLineAnyName(line, instance_name) ==
    /\ Contains(line, <<".", "name", "=">>)
    /\ Len(PathParts(line)) >= 3
    /\ PathParts(line)[1] = S("data_sender")

\* the test of lines 122-127: the line names the instance and is a
\* data_sender.<id>.<key> path
IsAnchorLine(line, instance_name) ==
    /\ Contains(line, <<".", "name", "=">>)
    /\ Contains(line, instance_name)
    /\ Len(PathParts(line)) >= 3
    /\ PathParts(line)[1] = S("data_sender")

\* index of the first line for which the loop of line 121 enters the
\* body of line 127, 0 when there is none
RECURSIVE AnchorAt(_, _, _)
AnchorAt(lines, instance_name, i) ==
    IF i > Len(lines) THEN 0
    ELSE IF IsAnchorLine(lines[i], instance_name) THEN i
    ELSE AnchorAt(lines, instance_name, i + 1)

\* index of the first line containing pat, 0 when there is none
RECURSIVE FirstLineWith(_, _, _)
FirstLineWith(lines, pat, i) ==
    IF i > Len(lines) THEN 0
    ELSE IF Contains(lines[i], pat) THEN i
    ELSE FirstLineWith(lines, pat, i + 1)

ValueOf(line) == Strip(Split(line, "=")[2], QuoteChars)

\* lines 134-144: the anchor's type, from the first line holding
\* "data_sender.<id>="
TypedAnchor(lines, section_id) ==
    LET t == FirstLineWith(lines, <<"data_sender", ".">> \o section_id \o <<"=">>, 1)
    IN  IF t = 0 THEN DictSet(EmptyDict, S("unknown"), section_id)
        ELSE DictSet(EmptyDict, ValueOf(lines[t]), section_id)

\* lines 162-191: a line holding both ".input=" and ".output="
CollectionBranch(lines, ref_line, fs) ==
    LET coll_id == PathParts(ref_line)[2]
        f1 == DictSet(fs, S("collection"), coll_id)
        il == FirstLineWith(lines,
                  <<"data_sender", ".">> \o coll_id \o <<".", "input", "=">>, 1)
        f2 == IF il # 0 /\ lines[il] # << >>
              THEN DictSet(f1, S("input"), ValueOf(lines[il])) ELSE f1
        ol == FirstLineWith(lines,
                  <<"data_sender", ".">> \o coll_id \o <<".", "output", "=">>, 1)
    IN  IF ol # 0 /\ lines[ol] # << >>
        THEN DictSet(f2, S("output"), ValueOf(lines[ol])) ELSE f2

\* lines 147-191: one pass over the lines looking for references
RECURSIVE RefScan(_, _, _, _)
RefScan(lines, section_id, fs, i) ==
    IF i > Len(lines) THEN fs
    ELSE LET ref_line == lines[i]
             next ==
                 IF Contains(ref_line, <<".", "input", "=">> \o section_id)
                 THEN DictSet(fs, S("collection"), PathParts(ref_line)[2])
                 ELSE IF Contains(ref_line, <<".", "output", "=">> \o section_id)
                 THEN DictSet(fs, S("collection"), PathParts(ref_line)[2])
                 ELSE IF /\ Contains(ref_line, <<".", "input", "=">>)
                         /\ Contains(ref_line, <<".", "output", "=">>)
                 THEN CollectionBranch(lines, ref_line, fs)
                 ELSE fs
         IN  RefScan(lines, section_id, next, i + 1)

\* CompleteOrFallback that hands the mapping back as it is
CompleteOrFallbackAsIs(fs) == fs

\* lines 193-203
CompleteOrFallback(fs) ==
    IF S("collection") \notin DOMAIN fs THEN Fallback ELSE fs

\* section_id of line 128, << >> when the loop of line 121 finds no anchor
AnchorSectionId(result, raised, instance_name) ==
    IF raised THEN << >>
    ELSE LET lines == LinesOf(result)
             a == AnchorAt(lines, instance_name, 1)
         IN  IF a = 0 THEN << >> ELSE PathParts(lines[a])[2]

\* the whole method; raised tells whether execute_command raised
FindDtsSectionsByName(result, raised, instance_name) ==
    IF raised THEN Fallback
    ELSE LET lines == LinesOf(result)
             a == AnchorAt(lines, instance_name, 1)
         IN  IF a = 0 THEN Fallback
             ELSE LET section_id == PathParts(lines[a])[2]
                  IN  CompleteOrFallback(
                          RefScan(lines, section_id,
                                  TypedAnchor(lines, section_id), 1))

-----------------------------------------------------------------------------
(* Scenario configurations and Python dict access *)

\* d.get(k, default)
Get(d, k, default) == IF k \in DOMAIN d THEN d[k] ELSE default

\* truth value of a dict
Truthy(d) == DOMAIN d # {}

\* str(n) of a non-negative int, one token per digit
DigitChar == <<"0", "1", "2", "3", "4", "5", "6", "7", "8", "9">>

RECURSIVE DecStr(_)
DecStr(n) ==
    IF n < 10 THEN << DigitChar[n + 1] >>
    ELSE DecStr(n \div 10) \o << DigitChar[(n % 10) + 1] >>

\* an argument of validate_ap_config: None, or a scenario that nests its
\* settings under "config" (as main.py loads them)
NoneArg == [given |-> FALSE, nested |-> FALSE, config |-> EmptyDict]

Nested(d) == [given |-> TRUE, nested |-> TRUE, config |-> d]

\* truth value of the argument itself: None and {} are false, a scenario
\* holding a "config" key is a non-empty dict
ArgTruthy(a) == a.given /\ (a.nested \/ Truthy(a.config))

\* lines 369-372: x.get("config", x) if x else None, as (is None, dict)
Unwrap(a) ==
    IF ArgTruthy(a) THEN [none |-> FALSE, d |-> a.config]
    ELSE [none |-> TRUE, d |-> EmptyDict]

\* `if mqtt_config:` / `if dts_config:` after the unwrapping
Requested(a) == ~Unwrap(a).none /\ Truthy(Unwrap(a).d)

MqttArgs ==
    { NoneArg,
      Nested(EmptyDict),
      Nested([port |-> 8883]),
      Nested([enabled |-> TRUE]) }

ServerConfig ==
    [server_address |-> S("broker.local"), topic |-> S("dts/status"),
     client_id |-> S("client7"), QoS |-> 1]

DtsArgs ==
    { NoneArg,
      Nested(EmptyDict),
      Nested([instanceName |-> S("foo"), server_config |-> ServerConfig]),
      Nested([instanceName |-> S("foo")]) }

TestTypes == {"ssh", "api"}

-----------------------------------------------------------------------------
(* Validation results *)

NoFailures == << >>

\* results["mqtt_broker"] / results["data_to_server"].  kind tells what
\* `details` is: "empty" ({}), "checks" (the dict of checks), "error"
\* (str(e)).  flags and raw are the dict's entries, failures its
\* "failures" entry (hasFailures: whether the key was set).
InitialSub ==
    [success |-> FALSE, kind |-> "empty", flags |-> EmptyDict,
     raw |-> EmptyDict, hasFailures |-> FALSE, failures |-> NoFailures]

\* ErrorSub that records the failed subsystem as successful
ErrorSubPassing ==
    [success |-> TRUE, kind |-> "error", flags |-> EmptyDict,
     raw |-> EmptyDict, hasFailures |-> FALSE, failures |-> NoFailures]

\* lines 461-463 and 674-676: {"success": False, "details": str(e)}
ErrorSub ==
    [success |-> FALSE, kind |-> "error", flags |-> EmptyDict,
     raw |-> EmptyDict, hasFailures |-> FALSE, failures |-> NoFailures]

ChecksSub(ok, fl, rw, fails) ==
    [success |-> ok, kind |-> "checks", flags |-> fl, raw |-> rw,
     hasFailures |-> ~ok, failures |-> IF ok THEN NoFailures ELSE fails]

\* lines 375-378
InitialResults == [mqtt_broker |-> InitialSub, data_to_server |-> InitialSub]

\* what the call returns: details is either the results dict (isDict) or
\* a text
ResultsValue(ok, res) ==
    [success |-> ok, isDict |-> TRUE, text |-> << >>, details |-> res]

TextValue(t) ==
    [success |-> FALSE, isDict |-> FALSE, text |-> t,
     details |-> InitialResults]

TimeoutResult == TextValue(S("Validation process timed out"))

NoConfigResult == TextValue(S("No configuration provided for validation"))

ErrorResult == TextValue(S("ssh error"))

\* markers: nothing returned yet / the coroutine was cancelled
Nothing == TextValue(S("<nothing>"))

Cancelled == TextValue(S("<cancelled>"))

-----------------------------------------------------------------------------
(* MQTT broker validation, lines 381-463 *)

MosqLine(key, v) == <<"mosquitto", ".", "mqtt", ".", key, "=">> \o Quoted(v)

\* what the device can answer to the four commands
EnabledOutputs == {MosqLine("enabled", S("1")), MosqLine("enabled", S("0"))}

PortOutputs ==
    {MosqLine("local_port", DecStr(1883)), MosqLine("local_port", DecStr(8883)),
     << >>}

AnonymousOutputs ==
    {MosqLine("anonymous_access", S("1")), MosqLine("anonymous_access", S("0"))}

ProcessOutputs == {<< >>, <<"1234", " ", "/usr/sbin/", "mosquitto">>}

\* line 384
ExpectedPort(cfg) ==
    IF "port" \in DOMAIN cfg THEN DecStr(cfg.port) ELSE DecStr(1883)

\* lines 409-411
PortValue(mqtt_port) ==
    IF Contains(mqtt_port, S("=")) THEN ValueOf(mqtt_port) ELSE << >>

EnabledFlag(out) == Contains(out, Quoted(S("1")))

ProcessFlag(mqtt_process) ==
    mqtt_process # << >> /\ Contains(mqtt_process, S("mosquitto"))

\* MqttSuccess without the process check
MqttSuccessNoProcess(en, pm, an, pr) == en /\ pm /\ an

\* lines 415-423
MqttSuccess(en, pm, an, pr) == en /\ pm /\ an /\ pr

\* lines 447-457
MqttFailures(en, pm, an, pr, expected_port, port_value) ==
    (IF ~en THEN << S("MQTT broker not enabled") >> ELSE << >>)
    \o (IF ~pm
        THEN << S("port (expected ") \o expected_port \o S(", got ")
                \o port_value \o S(")") >>
        ELSE << >>)
    \o (IF ~an THEN << S("anonymous access not enabled") >> ELSE << >>)
    \o (IF ~pr THEN << S("MQTT process not running") >> ELSE << >>)

\* lines 384-459 with the four command outputs given
MqttChecks(cfg, mqtt_enabled, mqtt_port, mqtt_anonymous, mqtt_process) ==
    LET expected_port == ExpectedPort(cfg)
        port_value == PortValue(mqtt_port)
        en == EnabledFlag(mqtt_enabled)
        pm == expected_port = port_value
        an == EnabledFlag(mqtt_anonymous)
        pr == ProcessFlag(mqtt_process)
    IN  ChecksSub(MqttSuccess(en, pm, an, pr),
                  [mqtt_broker_enabled |-> en, mqtt_port_correct |-> pm,
                   mqtt_anonymous_enabled |-> an, mqtt_process_running |-> pr],
                  [mqtt_enabled |-> mqtt_enabled, mqtt_port |-> mqtt_port,
                   mqtt_port_value |-> port_value,
                   expected_port |-> expected_port,
                   mqtt_anonymous |-> mqtt_anonymous,
                   mqtt_process |-> mqtt_process],
                  MqttFailures(en, pm, an, pr, expected_port, port_value))

-----------------------------------------------------------------------------
(* Data to Server validation, lines 466-676 *)

DtsLine(id, key, v) ==
    <<"data_sender", ".">> \o id \o <<".", key, "=">> \o Quoted(v)

\* what the device can answer to `uci show data_sender.<id>.<key>`
NameOutputs(id) ==
    {DtsLine(id, "name", S("foo")), DtsLine(id, "name", S("bar")), << >>}

DtsEnabledOutputs(id) ==
    {DtsLine(id, "enabled", S("1")), DtsLine(id, "enabled", S("0"))}

HostOutputs(id) ==
    {DtsLine(id, "mqtt_host", S("broker.local")),
     DtsLine(id, "mqtt_host", S("test.mosquitto.org"))}

TopicOutputs(id) ==
    {DtsLine(id, "mqtt_topic", S("dts/status")),
     DtsLine(id, "mqtt_topic", S("test/topic"))}

ClientIdOutputs(id) ==
    {DtsLine(id, "mqtt_client_id", S("client7")),
     DtsLine(id, "mqtt_client_id", S("test_client"))}

QosOutputs(id) ==
    {DtsLine(id, "mqtt_qos", DecStr(1)), DtsLine(id, "mqtt_qos", DecStr(0))}

\* x.split("=")[1].strip("'\"") if "=" in x else ""
ActualValue(out) == IF Contains(out, S("=")) THEN ValueOf(out) ELSE << >>

\* lines 469, 542-550
ExpectedName(cfg) == Get(cfg, "instanceName", S("test_instance"))

ServerConfigOf(cfg) == Get(cfg, "server_config", EmptyDict)

ExpectedServer(cfg) ==
    Get(ServerConfigOf(cfg), "server_address", S("test.mosquitto.org"))

ExpectedTopic(cfg) == Get(ServerConfigOf(cfg), "topic", S("test/topic"))

ExpectedClientId(cfg) ==
    Get(ServerConfigOf(cfg), "client_id", S("test_client"))

ExpectedQos(cfg) ==
    IF "QoS" \in DOMAIN ServerConfigOf(cfg)
    THEN DecStr(ServerConfigOf(cfg).QoS) ELSE S("0")

\* lines 482-484
CollectionId(sections) == Get(sections, S("collection"), S("1"))

OutputId(sections) == Get(sections, S("output"), S("2"))

InputId(sections) == Get(sections, S("input"), S("3"))

\* DtsSuccess with the disabled message check of line 604 switched on
DtsSuccessWithMessage(nm, en, sv, tp, ci, qs, msg) ==
    nm /\ en /\ sv /\ tp /\ ci /\ qs /\ msg

\* lines 595-606: mqtt_message_valid is not part of the list
DtsSuccess(nm, en, sv, tp, ci, qs, msg) == nm /\ en /\ sv /\ tp /\ ci /\ qs

Expected(what, e, a) ==
    S(what) \o S(" (expected '") \o e \o S("', got '") \o a \o S("')")

\* lines 644-668
DtsFailures(cfg, nv, ev, sv, tv, cv, qv, msg) ==
    (IF nv # ExpectedName(cfg)
     THEN << Expected("instanceName", ExpectedName(cfg), nv) >> ELSE << >>)
    \o (IF ev # S("1") THEN << S("DTS not enabled") >> ELSE << >>)
    \o (IF sv # ExpectedServer(cfg)
        THEN << Expected("server", ExpectedServer(cfg), sv) >> ELSE << >>)
    \o (IF tv # ExpectedTopic(cfg)
        THEN << Expected("topic", ExpectedTopic(cfg), tv) >> ELSE << >>)
    \o (IF cv # ExpectedClientId(cfg)
        THEN << Expected("client_id", ExpectedClientId(cfg), cv) >>
        ELSE << >>)
    \o (IF qv # ExpectedQos(cfg)
        THEN << Expected("QoS", ExpectedQos(cfg), qv) >> ELSE << >>)
    \o (IF ~msg THEN << S("no MQTT message received") >> ELSE << >>)

\* lines 486-672 with the command outputs and the probe's answer given;
\* probe is what validate_mqtt_message returns when it is called
DtsChecks(cfg, sections, dts_instance, dts_enabled, mqtt_server, mqtt_topic, mqtt_client_id, mqtt_qos, probe) ==
    LET nv == ActualValue(dts_instance)
        ev == ActualValue(dts_enabled)
        sv == ActualValue(mqtt_server)
        tv == ActualValue(mqtt_topic)
        cv == ActualValue(mqtt_client_id)
        qv == ActualValue(mqtt_qos)
        msg == IF Truthy(ServerConfigOf(cfg)) THEN probe ELSE FALSE
        ok == DtsSuccess(nv = ExpectedName(cfg), ev = S("1"),
                         sv = ExpectedServer(cfg), tv = ExpectedTopic(cfg),
                         cv = ExpectedClientId(cfg), qv = ExpectedQos(cfg),
                         msg)
    IN  ChecksSub(ok,
                  [dts_name_correct |-> nv = ExpectedName(cfg),
                   dts_enabled |-> ev = S("1"),
                   mqtt_server_correct |-> sv = ExpectedServer(cfg),
                   mqtt_topic_correct |-> tv = ExpectedTopic(cfg),
                   mqtt_client_id_correct |-> cv = ExpectedClientId(cfg),
                   mqtt_qos_correct |-> qv = ExpectedQos(cfg),
                   mqtt_message_received |-> msg],
                  [sections |-> sections,
                   dts_instance |-> dts_instance, dts_enabled |-> dts_enabled,
                   mqtt_server |-> mqtt_server, mqtt_topic |-> mqtt_topic,
                   mqtt_client_id |-> mqtt_client_id, mqtt_qos |-> mqtt_qos],
                  DtsFailures(cfg, nv, ev, sv, tv, cv, qv, msg))

-----------------------------------------------------------------------------
(* Specification of the resolver: a device is drawn, the resolver runs *)

\* the orchestrator has not been called
\* no scenario pair is being driven
PairIdle ==
    /\ effective_test_type = "all"
    /\ pair_index = 1
    /\ channel = "gui"
    /\ step = "idle"
    /\ mqtt_test = FALSE
    /\ dts_test = FALSE
    /\ collection_id = FALSE
    /\ applied = FALSE
    /\ onDevice = FALSE
    /\ mqtt_status = "none"
    /\ dts_status = "none"
    /\ validated = FALSE
    /\ cleanup_ran = FALSE

\* the probe has not been called on its own
ProbeIdle ==
    /\ ppc = "idle"
    /\ timeout = 0
    /\ clock = 0
    /\ proc = << >>
    /\ probe_result = "none"

\* no value is being extracted on its own
ParseIdle ==
    /\ stored = << >>
    /\ via = "none"
    /\ extracted = << >>

\* the driver has not been run on its own
ApplyIdle ==
    /\ apc = "idle"
    /\ existing = << >>
    /\ store = << >>
    /\ scenario = EmptyDict
    /\ section_ids = EmptyDict
    /\ verdict = EmptyDict

\* no cleanup has been called
CleanupIdle ==
    /\ layout = << >>
    /\ listed = {}
    /\ clean_all = FALSE
    /\ cleanup_config = NoneArg
    /\ cpc = "idle"
    /\ sections_to_delete = {}
    /\ remaining = {}
    /\ deleteIssued = {}
    /\ deleteCmds = 0
    /\ deleteFailed = FALSE
    /\ commitIssued = FALSE
    /\ restartIssued = FALSE
    /\ cleanup_result = "none"
    /\ calls = 0
    /\ computed = FALSE
    /\ handed = "none"

ValidateIdle ==
    /\ mqtt_config = NoneArg
    /\ dts_config = NoneArg
    /\ test_type = "api"
    /\ pc = "idle"
    /\ results = InitialResults
    /\ pending = Nothing
    /\ closeAttempted = FALSE
    /\ timedOut = FALSE
    /\ returned = Nothing

NoResult == EmptyDict

InitResolve ==
    /\ device \in Devices
    /\ order \in {"asc", "desc"}
    /\ rpc = "call"
    /\ found = NoResult
    /\ anchorId = << >>
    /\ showFailed = FALSE
    /\ ValidateIdle
    /\ PairIdle
    /\ CleanupIdle
    /\ ProbeIdle
    /\ ParseIdle
    /\ ApplyIdle

\* one call of _find_dts_sections_by_name(InstanceName)
Resolve ==
    /\ rpc = "call"
    /\ \E raised \in BOOLEAN :
        /\ showFailed' = raised
        /\ found' = FindDtsSectionsByName(UciShow(device, order), raised,
                                          InstanceName)
        /\ anchorId' = AnchorSectionId(UciShow(device, order), raised,
                                       InstanceName)
    /\ rpc' = "returned"
    /\ UNCHANGED <<device, order>>
    /\ UNCHANGED <<validateVars, pairVars, cleanupVars, probeVars, parseVars, applyVars>>

NextResolve == Resolve

SpecResolve == InitResolve /\ [][NextResolve]_vars

-----------------------------------------------------------------------------
(* validate_ap_config / _validate_ap_config *)

\* the device of spec scenario 8.6: collection 1 named foo with input 3
\* and output 2
ScenarioDevice ==
    [i \in Ids |->
        IF i = 1 THEN [type |-> "collection", name |-> InstanceName,
                       refs |-> TRUE]
        ELSE IF i = OutputOf(1) THEN [type |-> "output", name |-> NoName,
                                      refs |-> FALSE]
        ELSE IF i = InputOf(1) THEN [type |-> "input", name |-> NoName,
                                     refs |-> FALSE]
        ELSE Absent]

\* the resolver has not been called on its own
ResolverIdle ==
    /\ device = ScenarioDevice
    /\ order = "asc"
    /\ rpc = "idle"
    /\ found = NoResult
    /\ anchorId = << >>
    /\ showFailed = FALSE

Init ==
    /\ ResolverIdle
    /\ PairIdle
    /\ CleanupIdle
    /\ ProbeIdle
    /\ ParseIdle
    /\ ApplyIdle
    /\ mqtt_config \in MqttArgs
    /\ dts_config \in DtsArgs
    /\ test_type \in TestTypes
    /\ pc = "connect"
    /\ results = InitialResults
    /\ pending = Nothing
    /\ closeAttempted = FALSE
    /\ timedOut = FALSE
    /\ returned = Nothing

MqttCfg == Unwrap(mqtt_config).d

DtsCfg == Unwrap(dts_config).d

\* line 367: connect() returns, or raises into the handler of line 721
Connect ==
    /\ pc = "connect"
    /\ \E ok \in BOOLEAN :
        IF ok THEN pc' = "mqtt" /\ UNCHANGED pending
        ELSE pc' = "close" /\ pending' = ErrorResult
    /\ UNCHANGED <<mqtt_config, dts_config, test_type, results,
                   closeAttempted, timedOut, returned>>
    /\ UNCHANGED <<resolverVars, pairVars, cleanupVars, probeVars, parseVars, applyVars>>

\* lines 381-463: the four commands answer, or one of them raises
MqttValidation ==
    /\ pc = "mqtt"
    /\ IF Requested(mqtt_config)
       THEN \/ \E en \in EnabledOutputs, po \in PortOutputs,
                  an \in AnonymousOutputs, pr \in ProcessOutputs :
                   results' = [results EXCEPT !.mqtt_broker =
                                  MqttChecks(MqttCfg, en, po, an, pr)]
            \/ results' = [results EXCEPT !.mqtt_broker = ErrorSub]
       ELSE UNCHANGED results
    /\ pc' = "dts"
    /\ UNCHANGED <<mqtt_config, dts_config, test_type, pending,
                   closeAttempted, timedOut, returned>>
    /\ UNCHANGED <<resolverVars, pairVars, cleanupVars, probeVars, parseVars, applyVars>>

\* lines 466-676: the resolver runs, the commands and the probe answer,
\* or one of the commands raises
DtsValidation ==
    /\ pc = "dts"
    /\ IF Requested(dts_config)
       THEN \E raised \in BOOLEAN :
              LET sections ==
                      FindDtsSectionsByName(UciShow(device, order), raised,
                                            ExpectedName(DtsCfg))
                  cid == CollectionId(sections)
                  oid == OutputId(sections)
              IN  \/ \E nm \in NameOutputs(cid), en \in DtsEnabledOutputs(cid),
                        sv \in HostOutputs(oid), tp \in TopicOutputs(oid),
                        ci \in ClientIdOutputs(oid), qs \in QosOutputs(oid),
                        probe \in BOOLEAN :
                         results' = [results EXCEPT !.data_to_server =
                                        DtsChecks(DtsCfg, sections, nm, en, sv,
                                                  tp, ci, qs, probe)]
                  \/ results' = [results EXCEPT !.data_to_server = ErrorSub]
       ELSE UNCHANGED results
    /\ pc' = "finish"
    /\ UNCHANGED <<mqtt_config, dts_config, test_type, pending,
                   closeAttempted, timedOut, returned>>
    /\ UNCHANGED <<resolverVars, pairVars, cleanupVars, probeVars, parseVars, applyVars>>

\* OverallSuccess with `or` in place of `and`
OverallSuccessAny(mq, dt, res) ==
    (~Requested(mq) \/ res.mqtt_broker.success)
    \/ (~Requested(dt) \/ res.data_to_server.success)

\* lines 687-689
OverallSuccess(mq, dt, res) ==
    (~Requested(mq) \/ res.mqtt_broker.success)
    /\ (~Requested(dt) \/ res.data_to_server.success)

\* lines 678-719: the early return when nothing was requested, else the
\* overall verdict, the cleanup of the ssh runs (whose outcome is
\* ignored) and the return
Finish ==
    /\ pc = "finish"
    /\ pending' =
          IF ~(Requested(mqtt_config) \/ Requested(dts_config))
          THEN NoConfigResult
          ELSE ResultsValue(OverallSuccess(mqtt_config, dts_config, results),
                            results)
    /\ pc' = "close"
    /\ UNCHANGED <<mqtt_config, dts_config, test_type, results,
                   closeAttempted, timedOut, returned>>
    /\ UNCHANGED <<resolverVars, pairVars, cleanupVars, probeVars, parseVars, applyVars>>

\* the coroutine is suspended in an await of connect, of a command, of
\* the probe or of the cleanup
Awaiting ==
    \/ pc = "connect"
    \/ pc = "mqtt" /\ Requested(mqtt_config)
    \/ pc = "dts" /\ Requested(dts_config)
    \/ /\ pc = "finish"
       /\ Requested(mqtt_config) \/ Requested(dts_config)
       /\ test_type = "ssh"

\* Timeout that hands the failure back without waiting for the cancelled
\* coroutine to unwind
TimeoutNoUnwind ==
    /\ Awaiting
    /\ timedOut' = TRUE
    /\ pending' = Cancelled
    /\ results' = InitialResults
    /\ pc' = "return"
    /\ UNCHANGED <<mqtt_config, dts_config, test_type, closeAttempted,
                   returned>>
    /\ UNCHANGED <<resolverVars, pairVars, cleanupVars, probeVars, parseVars, applyVars>>

\* lines 105-108: the 120 s of wait_for run out while the coroutine is
\* suspended; it is cancelled, CancelledError passes the handlers of
\* lines 461, 674 and 721 and reaches the finally of line 724
Timeout ==
    /\ Awaiting
    /\ timedOut' = TRUE
    /\ pending' = Cancelled
    /\ results' = InitialResults
    /\ pc' = "close"
    /\ UNCHANGED <<mqtt_config, dts_config, test_type, closeAttempted,
                   returned>>
    /\ UNCHANGED <<resolverVars, pairVars, cleanupVars, probeVars, parseVars, applyVars>>

\* lines 105-108 and 724-728: the 120 s run out while the coroutine is
\* suspended in close(); the bare except of line 727 swallows the
\* CancelledError, the coroutine goes on to its return and wait_for hands
\* its value back
TimeoutInClose ==
    /\ pc = "close"
    /\ ~timedOut
    /\ timedOut' = TRUE
    /\ closeAttempted' = TRUE
    /\ pc' = "return"
    /\ UNCHANGED <<mqtt_config, dts_config, test_type, results, pending,
                   returned>>
    /\ UNCHANGED <<resolverVars, pairVars, cleanupVars, probeVars, parseVars, applyVars>>

\* lines 724-728: close() is called; what it raises is swallowed
Close ==
    /\ pc = "close"
    /\ closeAttempted' = TRUE
    /\ pc' = "return"
    /\ UNCHANGED <<mqtt_config, dts_config, test_type, results, pending,
                   timedOut, returned>>
    /\ UNCHANGED <<resolverVars, pairVars, cleanupVars, probeVars, parseVars, applyVars>>

\* lines 105-111: the coroutine's value, or the failure result when
\* wait_for raised TimeoutError
OuterResult(p) == IF p = Cancelled THEN TimeoutResult ELSE p

\* validate_ap_config returns to its caller
Return ==
    /\ pc = "return"
    /\ returned' = OuterResult(pending)
    /\ pc' = "returned"
    /\ UNCHANGED <<mqtt_config, dts_config, test_type, results, pending,
                   closeAttempted, timedOut>>
    /\ UNCHANGED <<resolverVars, pairVars, cleanupVars, probeVars, parseVars, applyVars>>

Next ==
    \/ Connect
    \/ MqttValidation
    \/ DtsValidation
    \/ Finish
    \/ Timeout
    \/ TimeoutInClose
    \/ Close
    \/ Return

Spec == Init /\ [][Next]_vars

-----------------------------------------------------------------------------
(* main: every scenario pair is driven over the requested channels; each
   channel applies the pair, has it validated and tears it down *)

MaxPairs == 2

TestTypeArgs == {"gui", "ssh", "api", "all"}

\* main.py lines 569, 666, 673
ChannelRequested(c) == effective_test_type \in {c, "all"}

\* class names of get_test_class_name, one token per word
DtsClassName(c) ==
    IF c = "ssh" THEN <<"Data", "To", "Server", "SSH", "Test">>
    ELSE IF c = "api" THEN <<"Data", "To", "Server", "API", "Test">>
    ELSE <<"Data", "To", "Server", "GUI", "Test">>

LowerToken(t) ==
    CASE t = "Data" -> "data" [] t = "To" -> "to" [] t = "Server" -> "server"
      [] t = "SSH" -> "ssh" [] t = "API" -> "api" [] t = "GUI" -> "gui"
      [] t = "Test" -> "test" [] OTHER -> t

\* str.lower()
Lower(s) == [i \in DOMAIN s |-> LowerToken(s[i])]

\* base_ssh_test.py line 53
IsDataToServerClass(name) ==
    Contains(Lower(name), <<"data", "_", "to", "_", "server">>)

InitPair ==
    /\ ResolverIdle
    /\ ValidateIdle
    /\ CleanupIdle
    /\ ProbeIdle
    /\ ParseIdle
    /\ ApplyIdle
    /\ effective_test_type \in TestTypeArgs
    /\ pair_index = 1
    /\ channel = "gui"
    /\ step = "begin"
    /\ mqtt_test = FALSE
    /\ dts_test = FALSE
    /\ collection_id = FALSE
    /\ applied = FALSE
    /\ onDevice = FALSE
    /\ mqtt_status = "none"
    /\ dts_status = "none"
    /\ validated = FALSE
    /\ cleanup_ran = FALSE

\* main.py lines 569, 666, 673 and the first lines of run_test_pair /
\* run_gui_test_pair: the channel is entered when it was requested
StartChannel ==
    /\ step = "begin"
    /\ step' = IF ChannelRequested(channel) THEN "mqtt" ELSE "done"
    /\ mqtt_test' = FALSE
    /\ dts_test' = FALSE
    /\ collection_id' = FALSE
    /\ applied' = FALSE
    /\ onDevice' = FALSE
    /\ UNCHANGED <<effective_test_type, pair_index, channel>>
    /\ UNCHANGED <<resolverVars, validateVars, cleanupVars, probeVars, parseVars, applyVars>>
    /\ mqtt_status' = "none"
    /\ dts_status' = "none"
    /\ validated' = FALSE
    /\ cleanup_ran' = FALSE

\* run_single_test for mqtt_broker (main.py 367-372): the instance is None
\* only when creating it raised; run_gui_test_pair 229-240: an exception in
\* setup or execute skips the rest of the pair
MqttTest ==
    /\ step = "mqtt"
    /\ \E created \in BOOLEAN, ok \in BOOLEAN :
        /\ mqtt_test' = created
        /\ mqtt_status' = IF created /\ ok THEN "PASS" ELSE "FAIL"
        /\ step' = IF channel = "gui" /\ ~(created /\ ok) THEN "done"
                   ELSE "dts"
    /\ UNCHANGED <<effective_test_type, pair_index, channel, dts_test,
                   collection_id, applied, onDevice>>
    /\ UNCHANGED <<resolverVars, validateVars, cleanupVars, probeVars, parseVars, applyVars>>
    /\ UNCHANGED <<dts_status, validated, cleanup_ran>>

\* api_test.py 39-79 as it bears on the device: the delete request is
\* sent when a collection_id was saved, and it succeeds or fails
ApiCleanup(has_id, on_device, deleted) == on_device /\ ~(has_id /\ deleted)

\* run_single_test for data_to_server (main.py 376-381).
\*   ssh: DataToServerSSHTest.run (ssh_test.py 23-54) configures and
\*        closes the connection;
\*   api: DataToServerAPITest.run (api_test.py 81-122) configures, saves
\*        the collection_id (846-856) and calls cleanup() in its finally;
\*   gui: setup and execute (main.py 264-266), an exception skips the
\*        validation
DtsTest ==
    /\ step = "dts"
    /\ \E created \in BOOLEAN, configured \in BOOLEAN, deleted \in BOOLEAN :
        /\ dts_test' = created
        /\ dts_status' = IF created /\ configured THEN "PASS" ELSE "FAIL"
        /\ applied' = (created /\ configured)
        /\ collection_id' = (channel = "api" /\ created /\ configured)
        /\ onDevice' =
              IF channel = "api"
              THEN ApiCleanup(created /\ configured, created /\ configured,
                              deleted)
              ELSE created /\ configured
        /\ step' = IF channel = "gui" /\ ~(created /\ configured)
                   THEN "logout" ELSE "validate"
    /\ UNCHANGED <<effective_test_type, pair_index, channel, mqtt_test>>
    /\ UNCHANGED <<resolverVars, validateVars, cleanupVars, probeVars, parseVars, applyVars>>
    /\ UNCHANGED <<mqtt_status, validated, cleanup_ran>>

\* validate_ap_config is about to be called for the pair: main.py 384 for
\* ssh and api, 281 for gui
ValidationStarts ==
    /\ step = "validate"
    /\ channel = "gui" \/ (mqtt_test /\ dts_test)

\* main.py 384-417 / 281-303: the validation, whose cleanup
\* (validators.py 715-717) runs when the validator was built with test
\* type ssh and may fail
Validate ==
    /\ step = "validate"
    /\ IF ValidationStarts /\ effective_test_type = "ssh"
       THEN \E cleaned \in BOOLEAN : onDevice' = (onDevice /\ ~cleaned)
       ELSE UNCHANGED onDevice
    /\ step' = IF channel = "gui" THEN "logout" ELSE "dts_cleanup"
    /\ UNCHANGED <<effective_test_type, pair_index, channel, mqtt_test,
                   dts_test, collection_id, applied>>
    /\ UNCHANGED <<resolverVars, validateVars, cleanupVars, probeVars, parseVars, applyVars>>
    /\ validated' = ValidationStarts
    /\ UNCHANGED <<mqtt_status, dts_status, cleanup_ran>>

\* main.py 420-428: dts_test.cleanup().  api: api_test.py 39-79; ssh:
\* base_ssh_test.py 49-96, which cleans the configuration only for a class
\* whose lowercased name contains "data_to_server"
DtsCleanup ==
    /\ step = "dts_cleanup"
    /\ IF ~dts_test THEN UNCHANGED onDevice
       ELSE \E deleted \in BOOLEAN :
              onDevice' =
                IF channel = "api"
                THEN ApiCleanup(collection_id, onDevice, deleted)
                ELSE IF IsDataToServerClass(DtsClassName(channel))
                     THEN onDevice /\ ~deleted
                     ELSE onDevice
    /\ step' = "mqtt_cleanup"
    /\ UNCHANGED <<effective_test_type, pair_index, channel, mqtt_test,
                   dts_test, collection_id, applied>>
    /\ UNCHANGED <<resolverVars, validateVars, cleanupVars, probeVars, parseVars, applyVars>>
    /\ cleanup_ran' = (dts_test /\ channel = "ssh" /\ IsDataToServerClass(DtsClassName(channel)))
    /\ UNCHANGED <<mqtt_status, dts_status, validated>>

\* main.py 430-438: mqtt_test.cleanup(), which leaves data_sender alone
MqttCleanup ==
    /\ step = "mqtt_cleanup"
    /\ step' = "done"
    /\ UNCHANGED <<effective_test_type, pair_index, channel, mqtt_test,
                   dts_test, collection_id, applied, onDevice>>
    /\ UNCHANGED <<resolverVars, validateVars, cleanupVars, probeVars, parseVars, applyVars>>
    /\ UNCHANGED <<mqtt_status, dts_status, validated, cleanup_ran>>

\* main.py 317-324: the single logout of the gui pair
Logout ==
    /\ step = "logout"
    /\ step' = "done"
    /\ UNCHANGED <<effective_test_type, pair_index, channel, mqtt_test,
                   dts_test, collection_id, applied, onDevice>>
    /\ UNCHANGED <<resolverVars, validateVars, cleanupVars, probeVars, parseVars, applyVars>>
    /\ UNCHANGED <<mqtt_status, dts_status, validated, cleanup_ran>>

\* main.py 554-680: on to the next channel, then to the next pair
NextChannel ==
    /\ step = "done"
    /\ channel # "api" \/ pair_index < MaxPairs
    /\ channel' = IF channel = "gui" THEN "ssh"
                  ELSE IF channel = "ssh" THEN "api" ELSE "gui"
    /\ pair_index' = IF channel = "api" THEN pair_index + 1 ELSE pair_index
    /\ step' = "begin"
    /\ UNCHANGED <<effective_test_type, mqtt_test, dts_test, collection_id,
                   applied, onDevice>>
    /\ UNCHANGED <<resolverVars, validateVars, cleanupVars, probeVars, parseVars, applyVars>>
    /\ UNCHANGED <<mqtt_status, dts_status, validated, cleanup_ran>>

NextPair ==
    \/ StartChannel
    \/ MqttTest
    \/ DtsTest
    \/ Validate
    \/ DtsCleanup
    \/ MqttCleanup
    \/ Logout
    \/ NextChannel

SpecPair == InitPair /\ [][NextPair]_vars

\* C6 as stated: on every channel, when validate_ap_config is called for a
\* pair the Data-to-Server configuration its driver applied is still on
\* the device; no teardown has deleted it before
C6_AppliedConfigPresentAtValidation ==
    (ValidationStarts /\ applied) => onDevice

\* the same, for the channels other than api
C6_PresentOnGuiAndSsh ==
    (ValidationStarts /\ applied /\ channel # "api") => onDevice

\* C23 as stated: in run_test_pair (ssh and api) a validation result is
\* appended only when both recorded statuses are PASS
C23_ValidationOnlyAfterTwoPasses ==
    (channel \in {"ssh", "api"} /\ validated) =>
        (mqtt_status = "PASS" /\ dts_status = "PASS")

\* C24 as stated: after cleanup() of the Data to Server SSH test
\* _cleanup_configuration has run with clean_all=True
C24_DtsSshCleanupCleansConfiguration ==
    (channel = "ssh" /\ step = "mqtt_cleanup" /\ dts_test) => cleanup_ran

-----------------------------------------------------------------------------
(* WirelessValidator._cleanup_configuration *)

MaxInstances == 2

MaxCalls == 2

Instances == 1..MaxInstances

\* instance 1 is the scenario's instance, the others are other instances
NameOfInstance(k) == IF k = 1 THEN InstanceName ELSE OtherName

\* what an instance was given: nothing, a collection alone, or a
\* collection with its output and its input, as the SSH driver writes them
Layouts == {"none", "collection", "triple"}

CollectionOf(k) == 3 * k - 2

OutputSectionOf(k) == 3 * k - 1

InputSectionOf(k) == 3 * k

Settings == S("settings")

\* the section ids instance k has under layout lay
SectionsOf(lay, k) ==
    IF lay[k] = "none" THEN {}
    ELSE IF lay[k] = "collection" THEN {IdStr(CollectionOf(k))}
    ELSE {IdStr(CollectionOf(k)), IdStr(OutputSectionOf(k)),
          IdStr(InputSectionOf(k))}

AllSections(lay) == UNION {SectionsOf(lay, k) : k \in Instances}

SettingsLines(pres) ==
    IF Settings \in pres
    THEN << <<"data_sender", ".", "settings", "=", "settings">>,
            <<"data_sender", ".", "settings", ".", "loglevel", "=">>
                \o Quoted(S("1")) >>
    ELSE << >>

\* the lines of instance k's sections that are still on the device
InstanceLines(lay, pres, k) ==
    (IF IdStr(CollectionOf(k)) \in pres
     THEN << TypeLine(CollectionOf(k), "collection"),
             OptionLine(CollectionOf(k), "name", NameOfInstance(k)),
             OptionLine(CollectionOf(k), "enabled", S("1")) >>
          \o (IF lay[k] = "triple"
              THEN << OptionLine(CollectionOf(k), "input",
                                 IdStr(InputSectionOf(k))),
                      OptionLine(CollectionOf(k), "output",
                                 IdStr(OutputSectionOf(k))) >>
              ELSE << >>)
     ELSE << >>)
    \o (IF IdStr(OutputSectionOf(k)) \in pres
        THEN << TypeLine(OutputSectionOf(k), "output"),
                OptionLine(OutputSectionOf(k), "name",
                           NameOfInstance(k) \o <<"_output">>) >>
        ELSE << >>)
    \o (IF IdStr(InputSectionOf(k)) \in pres
        THEN << TypeLine(InputSectionOf(k), "input") >>
        ELSE << >>)

RECURSIVE AllInstanceLines(_, _, _)
AllInstanceLines(lay, pres, k) ==
    IF k > MaxInstances THEN << >>
    ELSE InstanceLines(lay, pres, k) \o AllInstanceLines(lay, pres, k + 1)

\* the text execute_command("uci show data_sender") returns to the cleanup
CleanupShow(lay, pres) ==
    JoinLines(SettingsLines(pres) \o AllInstanceLines(lay, pres, 1))

LineSet(text) == Range(LinesOf(text))

\* line.split("=")[0].split(".")[1]
SectionIdOf(line) == Split(Split(line, "=")[1], ".")[2]

\* CleanAllSections without the test of line 242
CleanAllSectionsWithSettings(text) ==
    { SectionIdOf(l) :
        l \in { x \in LineSet(text) :
                  /\ Contains(x, S("="))
                  /\ Len(PathParts(x)) >= 2
                  /\ PathParts(x)[1] = S("data_sender") } }

\* lines 231-250: every data_sender section but settings
CleanAllSections(text) ==
    { SectionIdOf(l) :
        l \in { x \in LineSet(text) :
                  /\ Contains(x, S("="))
                  /\ Len(PathParts(x)) >= 2
                  /\ PathParts(x)[1] = S("data_sender")
                  /\ PathParts(x)[2] # Settings } }

\* `"input" in line`; the device's words hold "input" only as a whole word
MentionsInput(line) == Contains(line, S("input"))

\* lines 257-277: no scenario
NoScenarioSections(text) ==
    { SectionIdOf(l) :
        l \in { x \in LineSet(text) :
                  /\ Contains(x, S("="))
                  /\ Len(PathParts(x)) >= 2
                  /\ PathParts(x)[1] = S("data_sender")
                  /\ Split(x, "=")[2] = S("input") \/ MentionsInput(x) } }

\* lines 286-293: sections whose name line holds 'instance_name'
NamedSections(text, instance_name) ==
    { SectionIdOf(l) :
        l \in { x \in LineSet(text) :
                  /\ Contains(x, <<".", "name", "=">>)
                  /\ Contains(x, Quoted(instance_name)) } }

\* a line that holds an input or an output reference
IsRefLine(x) ==
    Contains(x, <<".", "input", "=">>) \/ Contains(x, <<".", "output", "=">>)

\* lines 296-309: every section holding a reference, and what it references
ReferenceSections(text) ==
    { SectionIdOf(l) : l \in { x \in LineSet(text) : IsRefLine(x) } }
    \cup { Strip(Split(l, "=")[2], QuoteChars) :
             l \in { x \in LineSet(text) : IsRefLine(x) } }

\* lines 312-320: input sections by pattern
PatternSections(text) ==
    { SectionIdOf(l) :
        l \in { x \in LineSet(text) :
                  /\ \/ Contains(x, <<"=", "input">>)
                     \/ Contains(x, <<".", "plugin", "=">>)
                  /\ MentionsInput(x) } }

\* lines 327-334: last resort
LastResortSections(text) ==
    { SectionIdOf(l) :
        l \in { x \in LineSet(text) :
                  \/ Contains(x, <<"=", "input">>)
                  \/ Contains(x, <<"=", "collection">>) } }

\* lines 279-334: a scenario naming the instance
ScenarioSections(text, instance_name) ==
    LET found_sections ==
            NamedSections(text, instance_name)
            \cup ReferenceSections(text) \cup PatternSections(text)
    IN  IF found_sections # {} THEN found_sections
        ELSE LastResortSections(text)

\* lines 229-334
SectionsToDelete(text, all, cfg) ==
    IF all THEN CleanAllSections(text)
    ELSE IF ~Requested(cfg) THEN NoScenarioSections(text)
    ELSE ScenarioSections(text, ExpectedName(Unwrap(cfg).d))

\* what the validator would return if overall success followed the
\* cleanup's result
AfterCleanupGated(value, ret) == value /\ ret = "True"

\* lines 715-719: the cleanup's result is discarded
AfterCleanup(value, ret) == value

CleanupArgs == {NoneArg, Nested([instanceName |-> InstanceName])}

\* number of a section id
IdNum(id) ==
    IF \E i \in 1..Len(Digit) : IdStr(i) = id
    THEN CHOOSE i \in 1..Len(Digit) : IdStr(i) = id
    ELSE 0

\* the section the loop of line 341 takes next: a set has no order of its
\* own, the loop is followed in increasing and in decreasing order of ids
NextInOrder(ids, ord) ==
    CHOOSE id \in ids :
        \A other \in ids :
            IF ord = "asc" THEN IdNum(id) <= IdNum(other)
            ELSE IdNum(id) >= IdNum(other)

InitCleanup ==
    /\ device = ScenarioDevice
    /\ order \in {"asc", "desc"}
    /\ rpc = "idle"
    /\ found = NoResult
    /\ anchorId = << >>
    /\ showFailed = FALSE
    /\ ValidateIdle
    /\ PairIdle
    /\ ProbeIdle
    /\ ParseIdle
    /\ ApplyIdle
    /\ layout \in [Instances -> Layouts]
    /\ \E has_settings \in BOOLEAN :
          listed = AllSections(layout)
                      \cup (IF has_settings THEN {Settings} ELSE {})
    /\ clean_all \in BOOLEAN
    /\ cleanup_config \in CleanupArgs
    /\ cpc = "show"
    /\ sections_to_delete = {}
    /\ remaining = {}
    /\ deleteIssued = {}
    /\ deleteCmds = 0
    /\ deleteFailed = FALSE
    /\ commitIssued = FALSE
    /\ restartIssued = FALSE
    /\ cleanup_result = "none"
    /\ calls = 1
    /\ computed = FALSE
    /\ handed = "none"

\* the except of lines 360-362
CleanupFails ==
    /\ cleanup_result' = "False"
    /\ cpc' = "returned"

\* lines 227-338: `uci show data_sender` answers and the deletion set is
\* computed, or the command raises
ShowAndSelect ==
    /\ cpc = "show"
    /\ \/ /\ sections_to_delete' =
                SectionsToDelete(CleanupShow(layout, listed), clean_all,
                                 cleanup_config)
          /\ remaining' = sections_to_delete'
          /\ IF sections_to_delete' = {}
             THEN cleanup_result' = "False" /\ cpc' = "returned"
             ELSE cleanup_result' = cleanup_result /\ cpc' = "delete"
          /\ UNCHANGED showFailed
       \/ /\ CleanupFails
          /\ showFailed' = TRUE
          /\ UNCHANGED <<sections_to_delete, remaining>>
    /\ UNCHANGED <<layout, listed, clean_all, cleanup_config, deleteIssued,
                   deleteCmds, deleteFailed, commitIssued, restartIssued,
                   calls, computed, handed>>
    /\ UNCHANGED <<device, order, rpc, found, anchorId>>
    /\ UNCHANGED <<validateVars, pairVars, probeVars, parseVars, applyVars>>

\* lines 341-349, one turn of the loop: `uci get` raises; or it answers
\* and `uci delete` is issued, which deletes the section or raises
DeleteSection ==
    /\ cpc = "delete"
    /\ remaining # {}
    /\ LET section_id == NextInOrder(remaining, order)
       IN
        \/ /\ CleanupFails
           /\ UNCHANGED <<remaining, listed, deleteIssued, deleteCmds,
                          deleteFailed>>
        \/ /\ deleteIssued' = deleteIssued \cup {section_id}
           /\ deleteCmds' = deleteCmds + 1
           /\ \/ /\ listed' = listed \ {section_id}
                 /\ remaining' = remaining \ {section_id}
                 /\ UNCHANGED <<deleteFailed, cleanup_result, cpc>>
              \/ /\ deleteFailed' = TRUE
                 /\ CleanupFails
                 /\ UNCHANGED <<listed, remaining>>
    /\ UNCHANGED <<layout, clean_all, cleanup_config, sections_to_delete,
                   commitIssued, restartIssued, calls, computed, handed>>
    /\ UNCHANGED <<resolverVars, validateVars, pairVars, probeVars, parseVars, applyVars>>

\* line 352: `uci commit data_sender`
Commit ==
    /\ cpc = "delete"
    /\ remaining = {}
    /\ commitIssued' = TRUE
    /\ \/ cpc' = "restart" /\ UNCHANGED cleanup_result
       \/ CleanupFails
    /\ UNCHANGED <<layout, listed, clean_all, cleanup_config,
                   sections_to_delete, remaining, deleteIssued, deleteCmds,
                   deleteFailed, restartIssued, calls, computed, handed>>
    /\ UNCHANGED <<resolverVars, validateVars, pairVars, probeVars, parseVars, applyVars>>

\* lines 355-358: the restart, then return True
Restart ==
    /\ cpc = "restart"
    /\ restartIssued' = TRUE
    /\ \/ cleanup_result' = "True" /\ cpc' = "returned"
       \/ CleanupFails
    /\ UNCHANGED <<layout, listed, clean_all, cleanup_config,
                   sections_to_delete, remaining, deleteIssued, deleteCmds,
                   deleteFailed, commitIssued, calls, computed, handed>>
    /\ UNCHANGED <<resolverVars, validateVars, pairVars, probeVars, parseVars, applyVars>>

\* validators.py 715-719: the validator, which called the cleanup after
\* computing overall_success, returns
ValidatorReturns ==
    /\ cpc = "returned"
    /\ handed = "none"
    /\ \E overall_success \in BOOLEAN :
        /\ computed' = overall_success
        /\ handed' = IF AfterCleanup(overall_success, cleanup_result)
                     THEN "True" ELSE "False"
    /\ cpc' = "handed"
    /\ UNCHANGED <<layout, listed, clean_all, cleanup_config,
                   sections_to_delete, remaining, deleteIssued, deleteCmds,
                   deleteFailed, commitIssued, restartIssued, cleanup_result,
                   calls>>
    /\ UNCHANGED <<resolverVars, validateVars, pairVars, probeVars, parseVars, applyVars>>

\* a full reset is called again on the device as the previous call left it
CleanupAgain ==
    /\ cpc = "handed"
    /\ clean_all
    /\ calls < MaxCalls
    /\ calls' = calls + 1
    /\ cpc' = "show"
    /\ sections_to_delete' = {}
    /\ remaining' = {}
    /\ deleteIssued' = {}
    /\ deleteCmds' = 0
    /\ deleteFailed' = FALSE
    /\ commitIssued' = FALSE
    /\ restartIssued' = FALSE
    /\ cleanup_result' = "none"
    /\ handed' = "none"
    /\ computed' = FALSE
    /\ showFailed' = FALSE
    /\ UNCHANGED <<layout, listed, clean_all, cleanup_config>>
    /\ UNCHANGED <<device, order, rpc, found, anchorId>>
    /\ UNCHANGED <<validateVars, pairVars, probeVars, parseVars, applyVars>>

NextCleanup ==
    \/ ShowAndSelect
    \/ DeleteSection
    \/ Commit
    \/ Restart
    \/ ValidatorReturns
    \/ CleanupAgain

SpecCleanup == InitCleanup /\ [][NextCleanup]_vars

-----------------------------------------------------------------------------
(* Properties of the cleanup *)

CleanupDone == cpc \in {"returned", "handed"}

\* the sections the current call has deleted
DeletedNow == sections_to_delete \ remaining

\* the sections `uci show data_sender` listed to the current call
ListedAtShow == listed \cup DeletedNow

\* the sections of the instances other than the scenario's
OtherInstancesSections ==
    UNION {SectionsOf(layout, k) : k \in Instances \ {1}}

\* C11: with clean_all=True, `uci delete` is never issued for settings and
\* never twice for a section; when every command succeeded, it was issued
\* for exactly the sections `uci show` listed, settings excepted
C11_CleanAllDeletesAllButSettings ==
    (clean_all /\ calls = 1) =>
        /\ Settings \notin deleteIssued
        /\ deleteIssued \subseteq AllSections(layout)
        /\ deleteCmds = Cardinality(deleteIssued)
        /\ cleanup_result = "True" =>
              /\ deleteIssued = AllSections(layout)
              /\ listed \subseteq {Settings}

\* two instances with collection, output and input, and settings: six
\* deletions, settings is left
C11_Witness ==
    /\ clean_all
    /\ calls = 1
    /\ cleanup_result = "True"
    /\ \A k \in Instances : layout[k] = "triple"
    /\ deleteCmds = 3 * MaxInstances
    /\ listed = {Settings}

\* C12 as stated: with clean_all=False and a scenario naming the instance,
\* no section of another instance is deleted
C12_OtherInstanceUntouched ==
    (~clean_all /\ Requested(cleanup_config) /\ calls = 1) =>
        deleteIssued \cap OtherInstancesSections = {}

\* the sections of type input the device holds
InputSections ==
    {IdStr(InputSectionOf(k)) : k \in {i \in Instances : layout[i] = "triple"}}

\* C21 as stated: with clean_all=False and no scenario the deletion set is
\* exactly the sections of type input; no collection and no output section
\* is in it
C21_NoScenarioDeletesInputsOnly ==
    (~clean_all /\ ~Requested(cleanup_config) /\ calls = 1 /\ cpc # "show" /\ ~showFailed) =>
        sections_to_delete = InputSections

\* C13 as stated: when a `uci delete` has failed, `uci delete` is still
\* issued for every other section of the deletion set
C13_FailedDeleteDoesNotAbort ==
    (CleanupDone /\ deleteFailed) => deleteIssued = sections_to_delete

\* C14 as stated: a run that has deleted a section issues the commit
\* after the last delete and the restart after the commit, and returns
\* True only after the restart and when every command succeeded
C14_CommitAndRestartFollowDeletes ==
    /\ (CleanupDone /\ DeletedNow # {}) => (commitIssued /\ restartIssued)
    /\ commitIssued => remaining = {}
    /\ restartIssued => commitIssued
    /\ cleanup_result = "True" => (restartIssued /\ ~deleteFailed)

\* C15 as stated: a second full reset that sees only settings issues no
\* `uci delete` and does not end in the failure outcome
C15_SecondResetIsClean ==
    ( /\ CleanupDone
      /\ clean_all
      /\ calls = 2
      /\ ~showFailed
      /\ ListedAtShow = {Settings} )
    => (deleteCmds = 0 /\ cleanup_result = "True")

\* C16: whichever command fails the cleanup returns a bool to its caller,
\* and the overall success the validator returns is the one it had computed
\* before the cleanup
C16_CleanupFailureIsSwallowed ==
    /\ CleanupDone => cleanup_result \in {"True", "False"}
    /\ cpc = "handed" => handed = (IF computed THEN "True" ELSE "False")

\* a delete failed, the cleanup returned False, the validator returned
\* success
C16_Witness ==
    /\ cpc = "handed"
    /\ deleteFailed
    /\ cleanup_result = "False"
    /\ computed
    /\ handed = "True"

-----------------------------------------------------------------------------
(* WirelessValidator.validate_mqtt_message *)

MaxTimeout == 2

MaxClock == 4

\* what the process wrote on stdout: bytes that decode as UTF-8 to text,
\* or bytes that do not
Bytes(text) == [valid |-> TRUE, text |-> text]

Undecodable == [valid |-> FALSE, text |-> <<"0xff">>]

Message == <<"dts/status", " ", "payload", "\n">>

Stdouts == {Bytes(Message), Bytes(<<"\n">>), Bytes(<< >>), Undecodable}

Stderrs == {Bytes(<< >>), Bytes(<<"Error:", " ", "refused", "\n">>), Undecodable}

\* spawn: create_subprocess_shell returns the process, raises, or does not
\* return; exits: the process ends at some time, or never does
Processes == [spawn : {"ok", "error", "never"}, exits : BOOLEAN, stdout : Stdouts, stderr : Stderrs]

\* ProbeVerdict that takes the end of the process for a message
ProbeVerdictExited(stdout, stderr) == "True"

\* lines 77-89 and 97-99: decode both, strip, True for a non-empty text
\* of stdout; a decoding error is caught by the handler of line 97
ProbeVerdict(stdout, stderr) ==
    IF ~stdout.valid \/ ~stderr.valid THEN "False"
    ELSE IF Strip(stdout.text, WhiteSpace) # << >> THEN "True"
    ELSE "False"

InitProbe ==
    /\ ResolverIdle
    /\ ValidateIdle
    /\ PairIdle
    /\ CleanupIdle
    /\ ParseIdle
    /\ ApplyIdle
    /\ ppc = "spawning"
    /\ timeout \in 1..MaxTimeout
    /\ clock = 0
    /\ proc \in Processes
    /\ probe_result = "none"

\* the wait_for of lines 66-71 is due
SpawnTimerDue == ppc = "spawning" /\ clock >= timeout

\* time passes while the probe is suspended; a timer that is due fires
\* before more time passes
Tick ==
    /\ ppc \in {"spawning", "communicating"}
    /\ ~SpawnTimerDue
    /\ clock < MaxClock
    /\ clock' = clock + 1
    /\ UNCHANGED <<ppc, timeout, proc, probe_result>>
    /\ UNCHANGED <<resolverVars, validateVars, pairVars, cleanupVars, parseVars, applyVars>>

\* lines 66-71: create_subprocess_shell returns the process
SpawnDone ==
    /\ ppc = "spawning"
    /\ proc.spawn = "ok"
    /\ ppc' = "communicating"
    /\ UNCHANGED <<timeout, clock, proc, probe_result>>
    /\ UNCHANGED <<resolverVars, validateVars, pairVars, cleanupVars, parseVars, applyVars>>

\* lines 66-71 and 97-99: create_subprocess_shell raises
SpawnError ==
    /\ ppc = "spawning"
    /\ proc.spawn = "error"
    /\ probe_result' = "False"
    /\ ppc' = "returned"
    /\ UNCHANGED <<timeout, clock, proc>>
    /\ UNCHANGED <<resolverVars, validateVars, pairVars, cleanupVars, parseVars, applyVars>>

\* lines 66-71 and 91-95: the wait_for around the spawn times out
SpawnTimeout ==
    /\ SpawnTimerDue
    /\ probe_result' = "False"
    /\ ppc' = "returned"
    /\ UNCHANGED <<timeout, clock, proc>>
    /\ UNCHANGED <<resolverVars, validateVars, pairVars, cleanupVars, parseVars, applyVars>>

\* lines 74-89: communicate() returns when the process has ended
CommunicateDone ==
    /\ ppc = "communicating"
    /\ proc.exits
    /\ probe_result' = ProbeVerdict(proc.stdout, proc.stderr)
    /\ ppc' = "returned"
    /\ UNCHANGED <<timeout, clock, proc>>
    /\ UNCHANGED <<resolverVars, validateVars, pairVars, cleanupVars, parseVars, applyVars>>

NextProbe ==
    \/ Tick
    \/ SpawnDone
    \/ SpawnError
    \/ SpawnTimeout
    \/ CommunicateDone

SpecProbe == InitProbe /\ [][NextProbe]_vars

\* time passes, timers fire, and what can complete does complete
SpecProbeLive ==
    /\ InitProbe
    /\ [][NextProbe]_vars
    /\ WF_vars(Tick)
    /\ WF_vars(SpawnDone)
    /\ WF_vars(SpawnError)
    /\ WF_vars(SpawnTimeout)
    /\ WF_vars(CommunicateDone)

\* C17: the probe returns a bool; True only when the process was spawned,
\* ended and wrote a message; False when the spawn failed or timed out,
\* or the output was empty, blank or undecodable
C17_ProbeTrueOnlyOnMessage ==
    ppc = "returned" =>
        /\ probe_result \in {"True", "False"}
        /\ probe_result = "True" =>
              /\ proc.spawn = "ok"
              /\ proc.exits
              /\ proc.stdout = Bytes(Message)
        /\ (proc.spawn # "ok" \/ proc.stdout # Bytes(Message)) =>
              probe_result = "False"

\* the process ended without output: False
C17_Witness ==
    /\ ppc = "returned"
    /\ proc.spawn = "ok"
    /\ proc.exits
    /\ proc.stdout = Bytes(<< >>)
    /\ clock < timeout
    /\ probe_result = "False"

\* C18 as stated: when the process has started and never ends, the probe
\* still returns False once its timeout has elapsed
C18_ProbeBoundedByOwnTimeout ==
    (ppc = "communicating" /\ ~proc.exits) ~> (ppc = "returned" /\ probe_result = "False")

-----------------------------------------------------------------------------
(* Extraction of a stored value from its `uci show` line *)

MaxLen == 3

ValueTokens == {"a", "/", "="}

RECURSIVE ValuesUpTo(_)
ValuesUpTo(n) == IF n = 0 THEN {<< >>} ELSE ValuesUpTo(n - 1) \cup {v \o << t >> : v \in {w \in ValuesUpTo(n - 1) : Len(w) = n - 1}, t \in ValueTokens}

StoredValues == ValuesUpTo(MaxLen)

InitParse ==
    /\ ResolverIdle
    /\ ValidateIdle
    /\ PairIdle
    /\ CleanupIdle
    /\ ProbeIdle
    /\ ApplyIdle
    /\ stored \in StoredValues
    /\ via = "none"
    /\ extracted = << >>

\* lines 558-562: the topic from `uci show data_sender.<id>.mqtt_topic`
ExtractTopic ==
    /\ via = "none"
    /\ via' = "dts"
    /\ extracted' = ActualValue(DtsLine(S("2"), "mqtt_topic", stored))
    /\ UNCHANGED stored
    /\ UNCHANGED <<resolverVars, validateVars, pairVars, cleanupVars, probeVars, applyVars>>

\* lines 409-411: the port from `uci show mosquitto.mqtt.local_port`
ExtractPort ==
    /\ via = "none"
    /\ via' = "mqtt"
    /\ extracted' = PortValue(MosqLine("local_port", stored))
    /\ UNCHANGED stored
    /\ UNCHANGED <<resolverVars, validateVars, pairVars, cleanupVars, probeVars, applyVars>>

NextParse == ExtractTopic \/ ExtractPort

SpecParse == InitParse /\ [][NextParse]_vars

\* C19 as stated: the value extracted from the line key='v' is v, also
\* when v contains '=', so a value stored verbatim equals the expectation
C19_ExtractedEqualsStored == via # "none" => extracted = stored

-----------------------------------------------------------------------------
(* DataToServerSSHTest: _identify_sections and configure_dts on the
   device's data_sender package, then validate_ap_config on the result *)

\* the device's package as the lines `uci show data_sender` prints
StoreOf(dev, ord) == SettingsLines({Settings}) \o ShowLines(dev, ord, 1)

\* section id of a line
LineId(line) == PathParts(line)[2]

\* ssh_test.py lines 68-77: the ids of the type lines of one type, as ints
TypeIds(lines, t) ==
    { IdNum(LineId(lines[i])) :
        i \in { j \in 1..Len(lines) :
                  /\ Contains(lines[j], <<"=", t>>)
                  /\ t = "output" => ~Contains(lines[j], <<"=", "collection">>)
                  /\ t = "input" =>
                        /\ ~Contains(lines[j], <<"=", "collection">>)
                        /\ ~Contains(lines[j], <<"=", "output">>) } }

Max(ns) == CHOOSE n \in ns : \A m \in ns : m <= n

\* ssh_test.py line 85: the text the name lines are searched for
NamePattern(instance_name) ==
    <<"data_sender", ".", "*", ".", "name", "=">> \o Quoted(instance_name)

\* `uci get data_sender.<id>`: the type of the section, << >> without it
TypeOfSection(lines, id) ==
    LET t == FirstLineWith(lines, <<"data_sender", ".">> \o id \o <<"=">>, 1)
    IN  IF t = 0 THEN << >> ELSE ValueOf(lines[t])

\* ssh_test.py lines 84-101: the id of the last line holding the pattern
\* whose section has type t, << >> (None) when there is none
RECURSIVE ReusedId(_, _, _, _)
ReusedId(lines, instance_name, t, i) ==
    IF i = 0 THEN << >>
    ELSE IF /\ Contains(lines[i], NamePattern(instance_name))
            /\ Len(PathParts(lines[i])) >= 2
            /\ TypeOfSection(lines, LineId(lines[i])) = S(t)
         THEN LineId(lines[i])
         ELSE ReusedId(lines, instance_name, t, i - 1)

\* ssh_test.py lines 104-114: the next id of a type
NextId(lines, t, first) ==
    IF TypeIds(lines, t) = {} THEN DecStr(first)
    ELSE DecStr(Max(TypeIds(lines, t)) + 1)

DefaultSectionIds ==
    [collection |-> S("1"), output |-> S("2"), input |-> S("3")]

NoSectionIds == [collection |-> << >>, output |-> << >>, input |-> << >>]

\* ssh_test.py lines 56-133: the ids _identify_sections chooses; raised
\* tells whether `uci show data_sender` raised
IdentifiedIds(lines, instance_name, raised) ==
    IF raised THEN DefaultSectionIds
    ELSE LET pick(t, first) ==
                 IF ReusedId(lines, instance_name, t, Len(lines)) # << >>
                 THEN ReusedId(lines, instance_name, t, Len(lines))
                 ELSE NextId(lines, t, first)
         IN  [collection |-> pick("collection", 1), output |-> pick("output", 2),
              input |-> pick("input", 3)]

SectionExists(lines, id) == TypeOfSection(lines, id) # << >>

\* ssh_test.py lines 117-124 for one section: `uci set data_sender.<id>=<type>`
\* when `uci get` finds none
CreateSection(lines, id, t) ==
    IF SectionExists(lines, id) THEN lines
    ELSE Append(lines, <<"data_sender", ".">> \o id \o <<"=", t>>)

\* ssh_test.py lines 117-124, in the order of the dict
CreateMissing(lines, ids) ==
    CreateSection(CreateSection(CreateSection(lines, ids.collection, "collection"), ids.output, "output"), ids.input, "input")

\* index of the last line of section id, 0 without the section
RECURSIVE SectionEnd(_, _, _)
SectionEnd(lines, id, i) ==
    IF i = 0 THEN 0
    ELSE IF Len(PathParts(lines[i])) >= 2 /\ LineId(lines[i]) = id THEN i
    ELSE SectionEnd(lines, id, i - 1)

\* `uci set data_sender.<id>.<key>="<v>"` on the package
UciSet(lines, id, key, v) ==
    LET prefix == <<"data_sender", ".">> \o id \o <<".", key, "=">>
        at == FirstLineWith(lines, prefix, 1)
        e == SectionEnd(lines, id, Len(lines))
    IN  IF at # 0 THEN [lines EXCEPT ![at] = prefix \o Quoted(v)]
        ELSE IF e = 0 THEN lines
        ELSE SubSeq(lines, 1, e) \o << prefix \o Quoted(v) >>
                 \o SubSeq(lines, e + 1, Len(lines))

\* `uci show data_sender.<id>.<key>`, trimmed
ShowOption(lines, id, key) ==
    LET at == FirstLineWith(lines, <<"data_sender", ".">> \o id \o <<".", key, "=">>, 1)
    IN  IF at = 0 THEN << >> ELSE lines[at]

\* ssh_test.py lines 152-183: one more than the highest sender_id
NextSenderId(lines) ==
    LET ids == { IdNum(ValueOf(l)) :
                   l \in { x \in Range(lines) :
                             Contains(x, <<".", "sender_id", "=">>) } }
    IN  IF ids = {} THEN 1 ELSE Max(ids) + 1

RECURSIVE SetAll(_, _)
SetAll(lines, sets) ==
    IF sets = << >> THEN lines
    ELSE SetAll(UciSet(lines, sets[1][1], sets[1][2], sets[1][3]), Tail(sets))

\* ssh_test.py lines 967-1011: _configure_server
ServerSets(ids, server_config) ==
    << <<ids.output, "plugin", S("mqtt")>>,
       <<ids.output, "mqtt_host", Get(server_config, "server_address", S("localhost"))>>,
       <<ids.output, "mqtt_port", DecStr(1883)>>,
       <<ids.output, "mqtt_keepalive", DecStr(30)>>,
       <<ids.output, "mqtt_topic", Get(server_config, "topic", S("test/topic"))>>,
       <<ids.output, "mqtt_client_id", Get(server_config, "client_id", S("test_client"))>>,
       <<ids.output, "mqtt_qos", IF "QoS" \in DOMAIN server_config THEN DecStr(server_config.QoS) ELSE DecStr(2)>>,
       <<ids.output, "mqtt_use_credentials", S("0")>> >>

\* ssh_test.py lines 185-294: configure_dts for a scenario without
\* collection_config and data_config
ConfigureDts(lines, ids, cfg) ==
    LET named ==
            SetAll(lines,
                << <<ids.input, "name", S("input") \o ids.input>>,
                   <<ids.output, "name", ExpectedName(cfg) \o S("_output")>>,
                   <<ids.collection, "enabled", S("1")>>,
                   <<ids.collection, "name", ExpectedName(cfg)>>,
                   <<ids.collection, "format", S("json")>>,
                   <<ids.collection, "input", ids.input>>,
                   <<ids.collection, "output", ids.output>>,
                   <<ids.input, "plugin", S("base")>>,
                   <<ids.input, "format", S("json")>>,
                   <<ids.input, "members", <<"time", "' '", "local_time", "' '", "fw", "' '", "name", "' '", "id">> >> >>)
        numbered ==
            UciSet(named, ids.collection, "sender_id", DecStr(NextSenderId(named)))
    IN  IF Truthy(ServerConfigOf(cfg))
        THEN SetAll(numbered, ServerSets(ids, ServerConfigOf(cfg)))
        ELSE numbered

TopicWithEquals == <<"a", "=", "b">>

\* scenarios whose server_config gives address, topic, client id and QoS
ApplyScenarios ==
    { [instanceName |-> InstanceName,
       server_config |-> [server_address |-> S("broker.local"), topic |-> t,
                          client_id |-> S("client7"), QoS |-> 1]] :
        t \in {S("dts/status"), TopicWithEquals} }

\* what a section of the device is before the driver runs: nothing, the
\* collection, output or input of an earlier run of the same scenario
ApplySectionOptions ==
    { Absent,
      [type |-> "collection", name |-> InstanceName, refs |-> TRUE],
      [type |-> "output", name |-> OutputName, refs |-> FALSE],
      [type |-> "input", name |-> InstanceName, refs |-> FALSE] }

ApplyDevices == [Ids -> ApplySectionOptions]

InitApply ==
    /\ device \in ApplyDevices
    /\ order = "asc"
    /\ rpc = "idle"
    /\ found = NoResult
    /\ anchorId = << >>
    /\ showFailed = FALSE
    /\ ValidateIdle
    /\ PairIdle
    /\ CleanupIdle
    /\ ProbeIdle
    /\ ParseIdle
    /\ apc = "identify"
    /\ existing = StoreOf(device, order)
    /\ store = StoreOf(device, order)
    /\ scenario \in ApplyScenarios
    /\ section_ids = NoSectionIds
    /\ verdict = InitialSub

\* DataToServerSSHTest.run, lines 29-30: _identify_sections
IdentifySections ==
    /\ apc = "identify"
    /\ \E raised \in BOOLEAN :
        LET ids == IdentifiedIds(store, ExpectedName(scenario), raised)
        IN  /\ section_ids' = ids
            /\ showFailed' = raised
            /\ store' = IF raised THEN store ELSE CreateMissing(store, ids)
    /\ apc' = "configure"
    /\ UNCHANGED <<device, order, rpc, found, anchorId, existing, scenario, verdict>>
    /\ UNCHANGED <<validateVars, pairVars, cleanupVars, probeVars, parseVars>>

\* DataToServerSSHTest.run, lines 32-33: configure_dts
ApplyConfiguration ==
    /\ apc = "configure"
    /\ store' = ConfigureDts(store, section_ids, scenario)
    /\ apc' = "validate"
    /\ UNCHANGED <<existing, scenario, section_ids, verdict>>
    /\ UNCHANGED <<resolverVars, validateVars, pairVars, cleanupVars, probeVars, parseVars>>

\* validators.py lines 466-676 on the device the driver left
ValidateApplied ==
    /\ apc = "validate"
    /\ \E probe \in BOOLEAN :
        LET sections == FindDtsSectionsByName(JoinLines(store), FALSE, ExpectedName(scenario))
            cid == CollectionId(sections)
            oid == OutputId(sections)
        IN  /\ found' = sections
            /\ verdict' = DtsChecks(scenario, sections, ShowOption(store, cid, "name"), ShowOption(store, cid, "enabled"), ShowOption(store, oid, "mqtt_host"), ShowOption(store, oid, "mqtt_topic"), ShowOption(store, oid, "mqtt_client_id"), ShowOption(store, oid, "mqtt_qos"), probe)
    /\ apc' = "done"
    /\ UNCHANGED <<device, order, rpc, anchorId, showFailed, existing, store, scenario, section_ids>>
    /\ UNCHANGED <<validateVars, pairVars, cleanupVars, probeVars, parseVars>>

NextApply ==
    \/ IdentifySections
    \/ ApplyConfiguration
    \/ ValidateApplied

SpecApply == InitApply /\ [][NextApply]_vars

Identified == apc \in {"configure", "validate", "done"} /\ ~showFailed

SectionTypes == {"collection", "output", "input"}

\* C25 as stated: a section of the device named instanceName has its id
\* reused for its type
C25_NamedSectionIsReused ==
    Identified =>
        \A i \in Ids :
            device[i].name = InstanceName =>
                section_ids[device[i].type] = IdStr(i)

\* C26 as stated: the three chosen ids are pairwise distinct and none is
\* the id of an existing section of another type
C26_ChosenIdsDistinctAndTyped ==
    Identified =>
        /\ section_ids.collection # section_ids.output
        /\ section_ids.collection # section_ids.input
        /\ section_ids.output # section_ids.input
        /\ \A t \in SectionTypes :
              TypeOfSection(existing, section_ids[t]) \in {<< >>, S(t)}

NoSections == \A i \in Ids : device[i].type = "absent"

\* C27 as stated: on a device with no section besides settings, after the
\* driver applied the scenario and every command succeeded, the validator
\* reports data_to_server success for the same scenario
C27_ApplyThenValidateSucceeds ==
    (apc = "done" /\ NoSections /\ ~showFailed) =>
        (verdict.kind = "checks" /\ verdict.success)

-----------------------------------------------------------------------------
(* Properties of validate_ap_config *)

HasReturned == pc = "returned"

\* the argument was passed (is not None)
Present(a) == a.given

\* the call handed back the results tree or the no-configuration failure
ChecksCompleted == returned.isDict \/ returned = NoConfigResult

\* C1 as stated: the returned overall success is the AND of the success
\* of the subsystems whose config was passed, a subsystem whose config was
\* not passed counting as successful, for every combination of absent and
\* listed configs
C1_SuccessIsAndOfPresent ==
    (HasReturned /\ ChecksCompleted) =>
        returned.success =
            ( /\ Present(mqtt_config) => returned.details.mqtt_broker.success
              /\ Present(dts_config) =>
                    returned.details.data_to_server.success )

\* C1 amended: when the call returns the results tree, at least one
\* config is non-empty after unwrapping and the overall success is the AND
\* of the success of the subsystems whose unwrapped config is non-empty;
\* when neither is non-empty the checks' outcome is the failure
\* "No configuration provided for validation"
C1_SuccessIsAndOfRequested ==
    HasReturned =>
        /\ returned.isDict =>
              /\ Requested(mqtt_config) \/ Requested(dts_config)
              /\ returned.success =
                    ( /\ Requested(mqtt_config) =>
                            returned.details.mqtt_broker.success
                      /\ Requested(dts_config) =>
                            returned.details.data_to_server.success )
        /\ ( /\ ~Requested(mqtt_config)
             /\ ~Requested(dts_config)
             /\ returned \notin {ErrorResult, TimeoutResult} )
           => returned = NoConfigResult

\* the broker checks passed and the Data-to-Server scenario was passed
\* with an empty nested config: overall success
C1_Witness ==
    /\ HasReturned
    /\ returned.isDict
    /\ Requested(mqtt_config)
    /\ Present(dts_config)
    /\ ~Requested(dts_config)
    /\ returned.details.mqtt_broker.success
    /\ returned.success

\* C20 as stated: whenever a config that is not None was passed, a
\* scenario whose nested `config` is empty included, the checks of its
\* subsystem were executed and the overall success implies their success
C20_PassedConfigIsCheckedAndGates ==
    (HasReturned /\ ChecksCompleted) =>
        /\ Present(mqtt_config) =>
              /\ returned.details.mqtt_broker.kind = "checks"
              /\ returned.success => returned.details.mqtt_broker.success
        /\ Present(dts_config) =>
              /\ returned.details.data_to_server.kind = "checks"
              /\ returned.success => returned.details.data_to_server.success

\* C22: a command that raises during the MQTT checks leaves mqtt_broker
\* with success false and the error text; the Data to Server validation
\* still runs when its config is non-empty; a failed connect hands back
\* {success: False, details: <error text>}; the call always hands back a
\* result
C22_SshFailureIsRecorded ==
    /\ results.mqtt_broker.kind = "error" => ~results.mqtt_broker.success
    /\ (HasReturned /\ returned.isDict /\ returned.details.mqtt_broker.kind = "error") =>
          /\ ~returned.success
          /\ Requested(dts_config) =>
                returned.details.data_to_server.kind \in {"checks", "error"}
    /\ (HasReturned /\ pending = ErrorResult) =>
          (returned = ErrorResult /\ ~returned.success)
    /\ HasReturned => returned \notin {Nothing, Cancelled}

\* the MQTT checks raised and the Data to Server checks ran and passed
C22_Witness ==
    /\ HasReturned
    /\ returned.isDict
    /\ returned.details.mqtt_broker.kind = "error"
    /\ Requested(dts_config)
    /\ returned.details.data_to_server.kind = "checks"
    /\ returned.details.data_to_server.success
    /\ ~returned.success

\* C2: on every path (normal return, failed connect, exception in a
\* check, early return without config, expiry of the outer timeout)
\* close() has been attempted before validate_ap_config hands back a
\* result
C2_CloseBeforeReturn == (pc \in {"return", "returned"}) => closeAttempted

C2_Witness ==
    /\ HasReturned
    /\ timedOut
    /\ returned = TimeoutResult
    /\ closeAttempted

\* C3 as stated: when the outer timeout fires before the inner
\* validation has finished, validate_ap_config returns the failure result
\* {success: False, details: "Validation process timed out"}
C3_TimeoutGivesFailureResult ==
    (HasReturned /\ timedOut) => returned = TimeoutResult

MqttFlagNames ==
    {"mqtt_broker_enabled", "mqtt_port_correct", "mqtt_anonymous_enabled",
     "mqtt_process_running"}

PortEntry(raw) ==
    S("port (expected ") \o raw.expected_port \o S(", got ")
        \o raw.mqtt_port_value \o S(")")

\* C4: once the four MQTT commands have answered, all four checks are in
\* the details, success is true exactly when all four hold, and when it is
\* false the failures list has one entry per failed check, naming it; the
\* port entry reads "port (expected E, got A)"
C4_MqttSuccessAndFailures ==
    LET m == results.mqtt_broker
        failed == {k \in MqttFlagNames : ~m.flags[k]}
    IN  m.kind = "checks" =>
            /\ DOMAIN m.flags = MqttFlagNames
            /\ m.flags.mqtt_port_correct =
                    (m.raw.expected_port = m.raw.mqtt_port_value)
            /\ m.success = (failed = {})
            /\ m.hasFailures = ~m.success
            /\ ~m.success =>
                  /\ Len(m.failures) = Cardinality(failed)
                  /\ Cardinality(Range(m.failures)) = Cardinality(failed)
                  /\ ("mqtt_broker_enabled" \in failed) =
                        (S("MQTT broker not enabled") \in Range(m.failures))
                  /\ ("mqtt_port_correct" \in failed) =
                        (PortEntry(m.raw) \in Range(m.failures))
                  /\ ("mqtt_anonymous_enabled" \in failed) =
                        (S("anonymous access not enabled")
                            \in Range(m.failures))
                  /\ ("mqtt_process_running" \in failed) =
                        (S("MQTT process not running") \in Range(m.failures))

\* expected port 8883, the device shows local_port='1883', the other
\* three checks pass
C4_Witness ==
    LET m == results.mqtt_broker
    IN  /\ m.kind = "checks"
        /\ ~m.success
        /\ m.failures =
              << <<"port (expected ", "8", "8", "8", "3", ", got ",
                   "1", "8", "8", "3", ")">> >>

\* C5: Data-to-Server success is true exactly when instance name, enabled
\* flag, sink host, topic, client id and QoS (as strings) equal the
\* expectation; whether an MQTT message was received does not enter
C5_DtsSuccessIgnoresLiveness ==
    LET d == results.data_to_server
    IN  d.kind = "checks" =>
            d.success =
                ( /\ ActualValue(d.raw.dts_instance) = ExpectedName(DtsCfg)
                  /\ ActualValue(d.raw.dts_enabled) = S("1")
                  /\ ActualValue(d.raw.mqtt_server) = ExpectedServer(DtsCfg)
                  /\ ActualValue(d.raw.mqtt_topic) = ExpectedTopic(DtsCfg)
                  /\ ActualValue(d.raw.mqtt_client_id)
                        = ExpectedClientId(DtsCfg)
                  /\ ActualValue(d.raw.mqtt_qos) = ExpectedQos(DtsCfg) )

\* success although the probe was made and no message was received
C5_Witness ==
    LET d == results.data_to_server
    IN  /\ d.kind = "checks"
        /\ d.success
        /\ Truthy(ServerConfigOf(DtsCfg))
        /\ ~d.flags.mqtt_message_received

DtsGatingFlags ==
    {"dts_name_correct", "dts_enabled", "mqtt_server_correct",
     "mqtt_topic_correct", "mqtt_client_id_correct", "mqtt_qos_correct"}

\* C29 as stated: when the Data to Server checks ran and success is false,
\* failures is non-empty, holds one entry per failed gating check and no
\* entry about anything else
C29_FailuresAreTheFailedGatingChecks ==
    LET d == results.data_to_server
    IN  (d.kind = "checks" /\ ~d.success) =>
            /\ d.failures # << >>
            /\ Len(d.failures) = Cardinality({f \in DtsGatingFlags : ~d.flags[f]})
            /\ S("no MQTT message received") \notin Range(d.failures)

-----------------------------------------------------------------------------
(* Properties of the resolver *)

Returned == rpc = "returned"

Triple(i) ==
    [k \in {S("collection"), S("output"), S("input")} |->
        IF k = S("collection") THEN IdStr(i)
        ELSE IF k = S("output") THEN IdStr(OutputOf(i))
        ELSE IdStr(InputOf(i))]

HasRefs(i) == device[i].type = "collection" /\ device[i].refs

FullyConnected(i) ==
    /\ HasRefs(i)
    /\ device[InputOf(i)].type = "input"
    /\ device[OutputOf(i)].type = "output"

NoSectionNamedInstance == \A i \in Ids : device[i].name # InstanceName

NoNameContainsInstance ==
    \A i \in Ids : ~Contains(device[i].name, InstanceName)

\* C28 as stated: the output and input ids the matcher probes are ids the
\* resolver's mapping holds or the ids of the fallback triple
C28_ProbedIdsComeFromResolver ==
    Returned =>
        /\ S("output") \in DOMAIN found \/ OutputId(found) = Fallback[S("output")]
        /\ S("input") \in DOMAIN found \/ InputId(found) = Fallback[S("input")]

\* C30: every mapping the resolver returns holds the key collection, for
\* every device text and when `uci show` raised, so the test of line 472
\* never takes the 'No matching DTS sections found' branch
C30_CollectionKeyAlwaysPresent ==
    Returned => (found # NoResult /\ S("collection") \in DOMAIN found)

\* the anchor is an output section no collection refers to: its own
\* mapping holds no collection, and the fallback is returned
C30_Witness ==
    /\ Returned
    /\ ~showFailed
    /\ anchorId # << >>
    /\ \E i \in Ids : anchorId = IdStr(i) /\ device[i].type = "output"
    /\ found = Fallback

\* C7: when the only section whose name mentions the instance is a
\* collection carrying input and output references, the resolver returns
\* that collection's id together with the ids its .input and .output keys
\* hold (the scenario collection 1 / output 2 / input 3 is one such device).
C7_AnchorCollectionRefsResolved ==
    (Returned /\ ~showFailed) =>
        \A i \in Ids :
            ( /\ FullyConnected(i)
              /\ device[i].name = InstanceName
              /\ \A j \in Ids \ {i} : ~Contains(device[j].name, InstanceName) )
            => found = Triple(i)

\* C8: with no section named instance_name and no fully connected
\* collection/input/output triple, or when `uci show` failed, the resolver
\* returns exactly the fallback {collection 2, output 3, input 5}.
C8_FallbackWhenUnresolved ==
    ( /\ Returned
      /\ \/ showFailed
         \/ (NoSectionNamedInstance /\ \A i \in Ids : ~FullyConnected(i)) )
    => found = Fallback

\* C9 as stated: with no section named instance_name, a collection that
\* has both an input and an output reference is returned with those
\* references instead of the fallback.
C9_ReferenceScanWithoutName ==
    ( /\ Returned
      /\ ~showFailed
      /\ NoSectionNamedInstance
      /\ \E i \in Ids : HasRefs(i) )
    => \E i \in Ids : HasRefs(i) /\ found = Triple(i)

\* C9 amended: when no name on the device contains instance_name, the
\* resolver returns the hardcoded fallback, also when a collection with
\* both references (even a fully connected triple) is listed.
C9_NoAnchorGivesFallback ==
    (Returned /\ NoNameContainsInstance) => found = Fallback

C9_Witness ==
    /\ Returned
    /\ ~showFailed
    /\ NoNameContainsInstance
    /\ \E i \in Ids : FullyConnected(i)
    /\ found = Fallback

\* C10: the section the resolver takes as anchor is always one whose name
\* equals instance_name exactly.
C10_AnchorIsExactName ==
    (Returned /\ anchorId # << >>) =>
        \E i \in Ids : IdStr(i) = anchorId /\ device[i].name = InstanceName

====
